---- MODULE Spec2Model ----
(***************************************************************************)
(* Model of gridd/main/message_handler.c (OpenIO SDS gridd): the message   *)
(* handler registry, the reply context and the transmission of a reply.    *)
(***************************************************************************)
EXTENDS Integers, Sequences, FiniteSets, TLC

VARIABLES
    BEACON_MSGHANDLER,  \* the list reachable from BEACON_MSGHANDLER.next, front first
    serv_tags,          \* the process-wide GPtrArray of service tags (or NULL)
    reg_call,           \* arguments of the last registration call
    reg_ret,            \* its return value
    reg_err,            \* *err after it
    regLog,             \* history: the entries registered, oldest first
    dispatched          \* the last dispatch scan: the request and the entry selected

regVars == <<BEACON_MSGHANDLER, serv_tags, reg_call, reg_ret, reg_err, regLog, dispatched>>

VARIABLES
    header,             \* ctx->header: code and msg
    body,               \* ctx->body: buffer, size and copy
    extra_headers,      \* ctx->extra_headers: NULL or the hash table
    warning,            \* ctx->warning
    heap,               \* the state of every buffer: "unalloc", "live" or "freed"
    g_frees,            \* how many times the context has passed each buffer to g_free
    g_live,             \* how many message strings, warnings and tables are allocated
    body_call,          \* arguments of the last reply_context_set_body call
    hdr_call,           \* arguments of the last call that adds a header
    owned,              \* history: the buffers the context copied or took over
    aliased,            \* history: set_body was given the buffer the context held
    lastAdd,            \* history: per key, the last non-empty value added
    lastStatus          \* history: code and message of the last set_message

ctxVars == <<header, body, extra_headers, warning>>
heapVars == <<heap, g_frees, g_live>>
histVars == <<body_call, hdr_call, owned, aliased, lastAdd, lastStatus>>

VARIABLES
    req_ctx,              \* ctx->req_ctx: the request and the socket it came from
    default_to_operation, \* the server's configured operation timeout (ms)
    sock,                 \* what has been written to req_ctx->fd, oldest first
    nreply,               \* number of reply_context_reply calls so far
    reply_call,           \* the locals of the last reply_context_reply call
    reply_ret,            \* its return value
    reply_err             \* *err after it

txVars == <<req_ctx, default_to_operation, sock, nreply, reply_call, reply_ret, reply_err>>

replyVars == <<ctxVars, heapVars, histVars, txVars>>

VARIABLES
    request_info,       \* the struct request_context_s of a connection
    rc_mem,             \* the struct and its address records: state, g_free count, value
    rc_hist,            \* history: what was created, the clear calls, the free calls
    fd_open             \* the sockets that are open

reqVars == <<request_info, rc_mem, rc_hist, fd_open>>

VARIABLES
    c_head,             \* BEACON_MSGHANDLER.next as the threads see it in memory
    c_mem,              \* the struct message_handler_s at each address
    c_thr,              \* each registering thread: its call, its locals, its position
    scan                \* the worker thread scanning the registry

concVars == <<c_head, c_mem, c_thr, scan>>

restVars == <<reqVars, concVars>>

vars == <<regVars, replyVars, restVars>>

-----------------------------------------------------------------------------
(* Bounds of the model.                                                    *)

MaxHandlers == 2
NCallerBufs == 2        \* buffers the caller owns at the start
MaxDups == 2            \* copies g_memdup may allocate
MaxReplies == 2         \* reply_context_reply calls on the context
MaxClears == 2          \* request_context_clear calls on a request context

-----------------------------------------------------------------------------
(* Values.                                                                 *)

NULL == "NULL"

\* A handler name is a C string: its identity and its length (without the NUL).
NULLNAME == [id |-> NULL, len |-> 0]
Names == {[id |-> "ping", len |-> 4], [id |-> "long", len |-> 100]}

\* Inbound requests, and the matcher functions of the callers with the requests
\* each one accepts.
Requests == {"r1", "r2", "r3"}
Matchers == {"match_r1", "match_r1r2"}
Accepts(m, req) ==
    CASE m = "match_r1"   -> req = "r1"
      [] m = "match_r1r2" -> req \in {"r1", "r2"}
      [] OTHER            -> FALSE

Handlers == {"handler"}
HandlersV2 == {"handler_v2"}

\* const GPtrArray *tags: absent, or an array of service tags owned by the caller.
NULLTAGS == [null |-> TRUE, arr |-> <<>>]
CallerTag(i) == [addr |-> <<"caller", i>>, name |-> IF i = 1 THEN "tag.up" ELSE "tag.vol"]
TagArgs == { NULLTAGS, [null |-> FALSE, arr |-> <<CallerTag(1), CallerTag(2)>>] }

SIZE_MSGHANDLERNAME == 64

NoErr == [set |-> FALSE, msg |-> <<>>]
GSETERROR(text) == [set |-> TRUE, msg |-> <<text>>]

Min(a, b) == IF a < b THEN a ELSE b
Max(a, b) == IF a > b THEN a ELSE b

-----------------------------------------------------------------------------
(* The handler registry.                                                   *)

\* strncpy (mh->name, name, SIZE_MSGHANDLERNAME-1) into the zeroed entry
strncpy(name, n) == [id |-> name.id, len |-> Min(name.len, n)]

\* if (!name || !m || !h)
InvalidArgs_noHandler(name, m, h) == name = NULLNAME \/ m = NULL
InvalidArgs(name, m, h) == name = NULLNAME \/ m = NULL \/ h = NULL

\* mh->next = BEACON_MSGHANDLER.next; BEACON_MSGHANDLER.next = mh;
Link_atTail(mh, list) == list \o <<mh>>
Link(mh, list) == <<mh>> \o list

\* g_malloc0: a fresh address for the new entry
NewEntryAddr == Len(regLog) + 1

\* service_tag_dup: a copy of the tag, at an address of its own
service_tag_dup_alias(tag, k) == tag
service_tag_dup(tag, k) == [addr |-> <<"serv_tags", k>>, name |-> tag.name]

RECURSIVE AddTags(_, _, _)
AddTags(array, tags, i) ==
    IF i > Len(tags) THEN array
    ELSE AddTags(Append(array, service_tag_dup(tags[i], Len(array) + 1)), tags, i + 1)

message_handler_add(name, m, h) ==
    /\ reg_call' = [fn |-> "add", name |-> name, m |-> m, h |-> h, tags |-> NULLTAGS]
    /\ IF InvalidArgs(name, m, h)
       THEN /\ reg_err' = GSETERROR("Invalid parameter")
            /\ reg_ret' = 0
            /\ UNCHANGED <<BEACON_MSGHANDLER, serv_tags, regLog>>
       ELSE /\ Len(BEACON_MSGHANDLER) < MaxHandlers
            /\ LET mh == [addr |-> NewEntryAddr,
                          matcher |-> m,
                          handler |-> h,
                          name |-> strncpy(name, SIZE_MSGHANDLERNAME - 1),
                          handler_v2 |-> NULL]
               IN /\ BEACON_MSGHANDLER' = Link(mh, BEACON_MSGHANDLER)
                  /\ regLog' = Append(regLog, mh)
            /\ reg_err' = NoErr
            /\ reg_ret' = 1
            /\ UNCHANGED serv_tags
    /\ UNCHANGED <<dispatched, replyVars, restVars>>

message_handler_add_v2(name, m, h, tags) ==
    /\ reg_call' = [fn |-> "add_v2", name |-> name, m |-> m, h |-> h, tags |-> tags]
    /\ IF InvalidArgs(name, m, h)
       THEN /\ reg_err' = GSETERROR("Invalid parameters")
            /\ reg_ret' = 0
            /\ UNCHANGED <<BEACON_MSGHANDLER, serv_tags, regLog>>
       ELSE /\ Len(BEACON_MSGHANDLER) < MaxHandlers
            /\ LET mh == [addr |-> NewEntryAddr,
                          matcher |-> m,
                          handler |-> NULL,
                          name |-> strncpy(name, SIZE_MSGHANDLERNAME - 1),
                          handler_v2 |-> h]
                   array == IF serv_tags.null THEN <<>> ELSE serv_tags.arr
               IN /\ BEACON_MSGHANDLER' = Link(mh, BEACON_MSGHANDLER)
                  /\ regLog' = Append(regLog, mh)
                  /\ serv_tags' = [null |-> FALSE,
                                   arr |-> IF tags.null THEN array
                                           ELSE AddTags(array, tags.arr, 1)]
            /\ reg_err' = NoErr
            /\ reg_ret' = 1
    /\ UNCHANGED <<dispatched, replyVars, restVars>>

\* The dispatch scan of the server's worker: front to back, the first entry
\* whose matcher accepts the request; 0 when there is none.
RECURSIVE Scan(_, _)
Scan(list, req) ==
    IF list = <<>> THEN 0
    ELSE IF Accepts(Head(list).matcher, req) THEN Head(list).addr
    ELSE Scan(Tail(list), req)

Dispatch(req) ==
    /\ dispatched' = [req |-> req, mh |-> Scan(BEACON_MSGHANDLER, req)]
    /\ UNCHANGED <<BEACON_MSGHANDLER, serv_tags, reg_call, reg_ret, reg_err, regLog>>
    /\ UNCHANGED <<replyVars, restVars>>

-----------------------------------------------------------------------------
(* The reply context: status, body and extra headers.                      *)

\* struct reply_context_s *ctx: the one reply context, or NULL
CTX == "ctx"
CtxArgs == {CTX, NULL}

\* The flags of reply_context_set_body, a set of bits.
REPLYCTX_DESTROY_ON_CLEAN == "REPLYCTX_DESTROY_ON_CLEAN"
REPLYCTX_COPY == "REPLYCTX_COPY"
BodyFlags == SUBSET {REPLYCTX_DESTROY_ON_CLEAN, REPLYCTX_COPY}
BitAnd(flags, bit) == flags \cap {bit}
BitOr(a, b) == a \cup b

\* Buffers: those of the caller, and those g_memdup allocates. 0 is NULL.
NULLBUF == 0
CallerBufs == 1..NCallerBufs
DupBufs == (NCallerBufs + 1)..(NCallerBufs + MaxDups)
BufIds == CallerBufs \cup DupBufs
BodySizes == {0, 3}

\* memset(&(ctx->header), 0x00, ...) and memset(&(ctx->body), 0x00, ...)
ZeroHeader == [code |-> 0, msg |-> NULL]
ZeroBody == [buffer |-> NULLBUF, size |-> 0, copy |-> {}]

StatusCodes == {200, 500}
StatusMsgs == {NULL, "", "OK"}

\* g_strdup: a copy with the same characters
g_strdup(str) == str

\* g_free of every buffer of F
FreeAll(h, F) == [b \in DOMAIN h |-> IF b \in F THEN "freed" ELSE h[b]]
CountFrees(f, F) == [b \in DOMAIN f |-> IF b \in F THEN f[b] + 1 ELSE f[b]]

\* REPLYCTX_CLEANBODY: the buffers it passes to g_free
REPLYCTX_CLEANBODY_anyBuffer(b) ==
    IF b.buffer # NULLBUF THEN {b.buffer} ELSE {}
REPLYCTX_CLEANBODY(b) ==
    IF b.buffer # NULLBUF /\ b.copy # {} THEN {b.buffer} ELSE {}

\* The extra headers: NULL, or a table from keys to byte arrays.
NULLTBL == [null |-> TRUE, tbl |-> <<>>]
Keys == {"k1", "k2", "k3"}
\* const guint8 *v / const gchar *v: absent, or the bytes it points to
NULLBYTES == [null |-> TRUE, bytes |-> <<>>]
Bytes(seq) == [null |-> FALSE, bytes |-> seq]
\* C strings (the bytes before the terminating NUL)
StrValues == {NULLBYTES, Bytes(<<>>), Bytes(<<118>>), Bytes(<<119, 120>>)}
\* GByteArray *v: absent, or data and len (data is NULL while len is 0)
NULLGBA == [null |-> TRUE, data |-> NULLBYTES, len |-> 0]
GByteArrays == { NULLGBA,
                 [null |-> FALSE, data |-> NULLBYTES, len |-> 0],
                 [null |-> FALSE, data |-> Bytes(<<0>>), len |-> 1],
                 [null |-> FALSE, data |-> Bytes(<<119, 120>>), len |-> 2] }

strlen(v) == Len(v.bytes)

\* g_byte_array_append(g_byte_array_new(), v, vlen)
g_byte_array_append(v, vlen) == SubSeq(v.bytes, 1, vlen)

\* g_hash_table_insert: the entry of an equal key is replaced
g_hash_table_insert(tbl, k, v) ==
    [x \in DOMAIN tbl \cup {k} |-> IF x = k THEN v ELSE tbl[x]]

\* if (!ctx || !k || !v || !vlen) return;
BufHeaderRejected_lenIgnored(ctx, k, v, vlen) ==
    ctx = NULL \/ k = NULL \/ v.null
BufHeaderRejected(ctx, k, v, vlen) ==
    ctx = NULL \/ k = NULL \/ v.null \/ vlen = 0

\* History of the claim on headers: an add with a key, a value and a length
\* that is not zero is the last value of that key.
NoteAdd(k, v, vlen) ==
    IF k # NULL /\ ~v.null /\ vlen > 0
    THEN [x \in DOMAIN lastAdd \cup {k} |->
              IF x = k THEN SubSeq(v.bytes, 1, vlen) ELSE lastAdd[x]]
    ELSE lastAdd

\* REPLYCTX_CLEANHEADER: g_free of ctx->header.msg when there is one; what is
\* left of the n message strings allocated.
REPLYCTX_CLEANHEADER(n) == IF header.msg # NULL THEN n - 1 ELSE n

\* if (all) { ... g_hash_table_destroy(ctx->extra_headers);
\*             ctx->extra_headers = NULL; }
ClearedHeaders_always(all, hdrs) == NULLTBL
ClearedHeaders(all, hdrs) == IF all THEN NULLTBL ELSE hdrs

\* What reply_context_clear releases besides the body: the message always
\* (REPLYCTX_CLEANHEADER), the warning and the table of headers when all is set.
ClearLive(live, all) ==
    [msg |-> REPLYCTX_CLEANHEADER(live.msg),
     warning |-> IF all /\ warning.set THEN live.warning - 1 ELSE live.warning,
     table |-> IF all /\ ~extra_headers.null THEN live.table - 1 ELSE live.table]

reply_context_clear(ctx, all) ==
    /\ IF ctx = NULL
       THEN UNCHANGED <<ctxVars, heapVars, lastAdd, lastStatus>>
       ELSE /\ warning' = IF all THEN NoErr ELSE warning
            /\ extra_headers' = ClearedHeaders(all, extra_headers)
            /\ header' = ZeroHeader
            /\ g_live' = ClearLive(g_live, all)
            /\ heap' = FreeAll(heap, REPLYCTX_CLEANBODY(body))
            /\ g_frees' = CountFrees(g_frees, REPLYCTX_CLEANBODY(body))
            /\ body' = ZeroBody
            /\ lastAdd' = IF all THEN <<>> ELSE lastAdd
            /\ lastStatus' = ZeroHeader
    /\ UNCHANGED <<body_call, hdr_call, owned, aliased, txVars, regVars, restVars>>

reply_context_set_message(ctx, code, msg) ==
    /\ IF ctx = NULL
       THEN UNCHANGED <<header, lastStatus, g_live>>
       ELSE /\ header' = [code |-> code,
                          msg |-> IF msg # NULL THEN g_strdup(msg) ELSE NULL]
            /\ g_live' = [g_live EXCEPT !.msg = REPLYCTX_CLEANHEADER(@)
                                                 + IF msg # NULL THEN 1 ELSE 0]
            /\ lastStatus' = [code |-> code, msg |-> msg]
    /\ UNCHANGED <<body, extra_headers, warning, heap, g_frees>>
    /\ UNCHANGED <<body_call, hdr_call, owned, aliased, lastAdd, txVars, regVars, restVars>>

\* g_memdup: the buffer it allocates
NewDup(h) == CHOOSE d \in DupBufs : h[d] = "unalloc" /\ \A e \in DupBufs : e < d => h[e] # "unalloc"

\* ctx->body.copy = (flags & REPLYCTX_DESTROY_ON_CLEAN) | (flags & REPLYCTX_COPY)
BodyCopy(flags) ==
    BitOr(BitAnd(flags, REPLYCTX_DESTROY_ON_CLEAN), BitAnd(flags, REPLYCTX_COPY))

\* if (body && bodySize>0)
BodyGiven_always(buf, bodySize) == TRUE
BodyGiven(buf, bodySize) == buf # NULLBUF /\ bodySize > 0

\* When buf is the buffer the context owns, REPLYCTX_CLEANBODY releases it
\* before it is stored or copied: the pointer stored is dangling, the copy is
\* made of released storage (its bytes, which the model does not hold, are
\* then arbitrary), and a later release of the stored pointer is counted in
\* g_frees as a second release of the buffer.
reply_context_set_body(ctx, buf, bodySize, flags) ==
    /\ body_call' = [ctx |-> ctx, body |-> buf, size |-> bodySize, flags |-> flags]
    /\ IF ctx = NULL
       THEN UNCHANGED <<body, heapVars, owned, aliased>>
       ELSE LET freed == REPLYCTX_CLEANBODY(body)
                heap1 == FreeAll(heap, freed)
                dup == BitAnd(flags, REPLYCTX_COPY) # {}
            IN /\ aliased' = (aliased \/ (buf # NULLBUF /\ buf = body.buffer))
               /\ g_live' = g_live
               /\ g_frees' = CountFrees(g_frees, freed)
               /\ IF BodyGiven(buf, bodySize)
                  THEN /\ dup => \E d \in DupBufs : heap[d] = "unalloc"
                       /\ LET buffer == IF dup THEN NewDup(heap1) ELSE buf
                          IN /\ body' = [buffer |-> buffer,
                                         size |-> bodySize,
                                         copy |-> BodyCopy(flags)]
                             /\ heap' = IF dup THEN [heap1 EXCEPT ![buffer] = "live"]
                                               ELSE heap1
                             /\ owned' = IF dup \/ REPLYCTX_DESTROY_ON_CLEAN \in flags
                                         THEN owned \cup {buffer} ELSE owned
                  ELSE /\ body' = ZeroBody
                       /\ heap' = heap1
                       /\ owned' = owned
    /\ UNCHANGED <<header, extra_headers, warning, hdr_call, lastAdd, lastStatus,
                   txVars, regVars, restVars>>

reply_context_add_bufheader_in_reply(ctx, k, v, vlen) ==
    /\ IF BufHeaderRejected(ctx, k, v, vlen)
       THEN UNCHANGED <<extra_headers, g_live>>
       ELSE LET table == IF extra_headers.null THEN <<>> ELSE extra_headers.tbl
                newK == g_strdup(k)
                newV == g_byte_array_append(v, vlen)
            IN /\ extra_headers' = [null |-> FALSE,
                                    tbl |-> g_hash_table_insert(table, newK, newV)]
               /\ g_live' = [g_live EXCEPT !.table = IF extra_headers.null
                                                     THEN @ + 1 ELSE @]
    /\ UNCHANGED <<header, body, warning, heap, g_frees>>
    /\ UNCHANGED <<body_call, owned, aliased, lastStatus, txVars, regVars, restVars>>

reply_context_add_strheader_in_reply(ctx, k, v) ==
    /\ hdr_call' = [fn |-> "strheader", ctx |-> ctx, k |-> k, v |-> v, vlen |-> strlen(v)]
    /\ lastAdd' = IF ctx = NULL THEN lastAdd ELSE NoteAdd(k, v, strlen(v))
    /\ IF ctx = NULL \/ k = NULL \/ v.null
       THEN UNCHANGED <<ctxVars, heapVars, body_call, owned, aliased, lastStatus,
                        txVars, regVars, restVars>>
       ELSE reply_context_add_bufheader_in_reply(ctx, k, v, strlen(v))

reply_context_add_header_in_reply(ctx, k, v) ==
    /\ hdr_call' = [fn |-> "header", ctx |-> ctx, k |-> k, v |-> v.data, vlen |-> v.len]
    /\ lastAdd' = IF ctx = NULL THEN lastAdd ELSE NoteAdd(k, v.data, v.len)
    /\ IF ctx = NULL \/ k = NULL \/ v.null
       THEN UNCHANGED <<ctxVars, heapVars, body_call, owned, aliased, lastStatus,
                        txVars, regVars, restVars>>
       ELSE reply_context_add_bufheader_in_reply(ctx, k, v.data, v.len)

-----------------------------------------------------------------------------
(* The request context.                                                    *)

\* The pieces of storage of one request context: the struct and the two
\* address records it owns.
RcObjects == {"ctx", "local_addr", "remote_addr"}
RcAddrs == {"local_addr", "remote_addr"}
Fds == {5, 6}

\* memset(ctx, 0x00, sizeof(struct request_context_s)); a field that is a
\* pointer holds NULL, or the name of the record it points to.
ZeroRequestContext ==
    [fd |-> 0, tv_start |-> 0, local_addr |-> NULL, remote_addr |-> NULL]

NoRequestHistory == [created |-> ZeroRequestContext, clears |-> 0, destroyed |-> FALSE]

\* struct request_context_s *: NULL or the one context
RcArgs == {NULL, "ctx"}
\* addr_info_t *fd_peer: NULL or the address the listener knows
PeerArgs == {NULL, "fd_peer"}
\* gettimeofday
Times == {100, 200}

\* addrinfo_from_sockaddr after getpeername / getsockname: the address of
\* the endpoint, or zeroes when the socket could not tell
Resolved(what) == {what, "zero"}

request_context_create(fd, fd_peer) ==
    /\ rc_mem.st["ctx"] = "unalloc"
    /\ \E now \in Times, remote \in Resolved("getpeername"),
          sockname \in Resolved("getsockname") :
         LET local == IF fd_peer # NULL THEN fd_peer ELSE sockname
             ctx == [fd |-> fd, tv_start |-> now,
                     local_addr |-> "local_addr", remote_addr |-> "remote_addr"]
         IN /\ request_info' = ctx
            /\ rc_mem' = [rc_mem EXCEPT !.st = [o \in RcObjects |-> "live"],
                                        !.val = [local_addr |-> local,
                                                 remote_addr |-> remote]]
            /\ rc_hist' = [rc_hist EXCEPT !.created = ctx]
    /\ UNCHANGED <<fd_open, concVars, regVars, replyVars>>

\* g_free(p) for each pointer of P that is not NULL
RcFree(mem, P) ==
    [mem EXCEPT !.st = [o \in RcObjects |-> IF o \in P THEN "freed" ELSE @[o]],
                !.frees = [o \in RcObjects |-> IF o \in P THEN @[o] + 1 ELSE @[o]]]

\* memset(request_info, 0, sizeof(struct request_context_s));
ClearedRequest_notZeroed(ctx) == ctx
ClearedRequest(ctx) == ZeroRequestContext

\* The records request_context_clear passes to g_free.
ClearedAddrs(ctx) == {ctx.local_addr, ctx.remote_addr} \ {NULL}

request_context_clear(p) ==
    /\ p # NULL => rc_mem.st["ctx"] = "live" /\ rc_hist.clears < MaxClears
    /\ IF p = NULL
       THEN UNCHANGED <<request_info, rc_mem, rc_hist>>
       ELSE /\ rc_mem' = RcFree(rc_mem, ClearedAddrs(request_info))
            /\ request_info' = ClearedRequest(request_info)
            /\ rc_hist' = [rc_hist EXCEPT !.clears = @ + 1]
    /\ UNCHANGED <<fd_open, concVars, regVars, replyVars>>

request_context_free(p) ==
    /\ p # NULL => rc_mem.st["ctx"] = "live"
    /\ IF p = NULL
       THEN UNCHANGED <<request_info, rc_mem, rc_hist>>
       ELSE /\ rc_mem' = RcFree(RcFree(rc_mem, ClearedAddrs(request_info)), {"ctx"})
            /\ request_info' = ClearedRequest(request_info)
            /\ rc_hist' = [rc_hist EXCEPT !.destroyed = TRUE]
    /\ UNCHANGED <<fd_open, concVars, regVars, replyVars>>

request_context_gclean(p1, p2) ==
    IF p1 # NULL THEN request_context_free(p1)
    ELSE UNCHANGED vars

-----------------------------------------------------------------------------
(* Registration and scan, step by step, as threads run them.               *)

\* BEACON_MSGHANDLER.next and mh->next hold NULL or the address of an entry;
\* the address of an entry is its index in c_mem.
NULLMH == 0
Threads == {1, 2}

\* g_malloc0(sizeof(struct message_handler_s))
ZeroHandler ==
    [matcher |-> NULL, handler |-> NULL, name |-> [id |-> "", len |-> 0],
     next |-> NULLMH, handler_v2 |-> NULL]

\* The statements of a registration that follow g_malloc0, in program order:
\* the stores to the fields of mh, the load of BEACON_MSGHANDLER.next and the
\* store of it in mh->next, the store of mh in BEACON_MSGHANDLER.next and,
\* in message_handler_add_v2, the creation of serv_tags.
Statements_publishFirst(fn) ==
    <<"load", "publish", "matcher", "handler", "name", "next", "handler_v2">>
      \o (IF fn = "add_v2" THEN <<"serv_tags">> ELSE <<>>)
Statements(fn) ==
    <<"matcher", "handler", "name", "load", "next", "handler_v2", "publish">>
      \o (IF fn = "add_v2" THEN <<"serv_tags">> ELSE <<>>)

\* The stores are plain stores and neither function takes a lock or issues a
\* barrier: another thread sees them in program order, or in any order that
\* the data they carry allows (mh->next and BEACON_MSGHANDLER.next are stored
\* after BEACON_MSGHANDLER.next is loaded).
Orders == {"program", "any"}

Before(seq, a, b) ==
    \E i, j \in DOMAIN seq : i < j /\ seq[i] = a /\ seq[j] = b

MayRun(thr, st) ==
    /\ st \in thr.todo
    /\ IF thr.order = "program"
       THEN \A x \in thr.todo : ~Before(Statements(thr.call.fn), x, st)
       ELSE st \in {"next", "publish"} => "load" \notin thr.todo

\* mh->next = BEACON_MSGHANDLER.next: the value loaded is the value stored
Linked_null(thr) == NULLMH
Linked(thr) == thr.nxt

\* The entry at mh after the store st of the thread.
Store(st, thr, e) ==
    CASE st = "matcher" -> [e EXCEPT !.matcher = thr.call.m]
      [] st = "handler" ->
            [e EXCEPT !.handler = IF thr.call.fn = "add" THEN thr.call.h ELSE NULL]
      [] st = "name" ->
            [e EXCEPT !.name = strncpy(thr.call.name, SIZE_MSGHANDLERNAME - 1)]
      [] st = "next" -> [e EXCEPT !.next = Linked(thr)]
      [] st = "handler_v2" ->
            [e EXCEPT !.handler_v2 = IF thr.call.fn = "add" THEN NULL ELSE thr.call.h]
      [] OTHER -> e

\* The list a scan follows from the pointer p: the addresses in order.
RECURSIVE Reach(_, _, _)
Reach(mem, p, fuel) ==
    IF p = NULLMH \/ fuel = 0 THEN <<>>
    ELSE <<p>> \o Reach(mem, mem[p].next, fuel - 1)

Registry == Reach(c_mem, c_head, Len(c_mem))

\* A thread that registers nothing: its call, its locals mh and the value
\* loaded from BEACON_MSGHANDLER.next, the statements it has yet to run, and
\* the history of its calls (the registry when the call began, whether a call
\* had its stores seen out of program order, whether it stored the head over
\* a value it had not loaded, the entries of the calls that returned).
IdleThread ==
    [pc |-> "idle",
     call |-> [fn |-> "none", name |-> NULLNAME, m |-> NULL, h |-> NULL],
     mh |-> NULLMH, nxt |-> NULLMH, todo |-> {}, order |-> "program", ret |-> 1,
     old |-> <<>>, raced |-> FALSE, stale |-> FALSE, done |-> <<>>]

\* The call of message_handler_add or message_handler_add_v2 (without tags)
\* by thread t, up to g_malloc0.
RegBegin(t, fn, name, m, h, order) ==
    /\ c_thr[t].pc # "run"
    /\ IF InvalidArgs(name, m, h)
       THEN /\ c_thr' = [c_thr EXCEPT ![t].pc = "done", ![t].ret = 0,
                           ![t].call = [fn |-> fn, name |-> name, m |-> m, h |-> h]]
            /\ UNCHANGED c_mem
       ELSE /\ Len(c_mem) < MaxHandlers
            /\ c_mem' = Append(c_mem, ZeroHandler)
            /\ c_thr' = [c_thr EXCEPT ![t] =
                  [@ EXCEPT !.pc = "run",
                            !.call = [fn |-> fn, name |-> name, m |-> m, h |-> h],
                            !.mh = Len(c_mem) + 1,
                            !.nxt = NULLMH,
                            !.todo = {Statements(fn)[i] : i \in DOMAIN Statements(fn)},
                            !.order = order,
                            !.old = Registry,
                            !.raced = @ \/ order # "program"]]
    /\ UNCHANGED <<c_head, scan, regVars, replyVars, reqVars>>

\* One statement of the registration of thread t; the call returns 1 after
\* the last one.
RegStep(t) ==
    /\ c_thr[t].pc = "run"
    /\ \E st \in c_thr[t].todo :
         LET thr == c_thr[t]
             rest == thr.todo \ {st}
         IN /\ MayRun(thr, st)
            /\ c_mem' = [c_mem EXCEPT ![thr.mh] = Store(st, thr, @)]
            /\ c_head' = IF st = "publish" THEN thr.mh ELSE c_head
            /\ serv_tags' = IF st = "serv_tags" /\ serv_tags.null
                             THEN [null |-> FALSE, arr |-> <<>>] ELSE serv_tags
            /\ c_thr' = [c_thr EXCEPT ![t] =
                  [@ EXCEPT !.todo = rest,
                            !.nxt = IF st = "load" THEN c_head ELSE @,
                            !.stale = @ \/ (st = "publish" /\ c_head # thr.nxt),
                            !.pc = IF rest = {} THEN "done" ELSE "run",
                            !.ret = 1,
                            !.done = IF rest = {} THEN <<thr.mh>> \o @ ELSE @]]
    /\ UNCHANGED <<BEACON_MSGHANDLER, reg_call, reg_ret, reg_err, regLog, dispatched>>
    /\ UNCHANGED <<scan, replyVars, reqVars>>

\* The entry thread thr is registering, once all its fields are stored.
Want(thr) ==
    [matcher |-> thr.call.m,
     handler |-> IF thr.call.fn = "add" THEN thr.call.h ELSE NULL,
     name |-> strncpy(thr.call.name, SIZE_MSGHANDLERNAME - 1),
     next |-> IF thr.old = <<>> THEN NULLMH ELSE Head(thr.old),
     handler_v2 |-> IF thr.call.fn = "add" THEN NULL ELSE thr.call.h]

\* The entry at addr is one a registration has not finished writing.
Partial(addr) ==
    \E t \in Threads :
        c_thr[t].pc = "run" /\ c_thr[t].mh = addr /\ c_mem[addr] # Want(c_thr[t])

\* The worker thread: no scan yet. A scan keeps the request, the entry it is
\* at and the entry it selected, and as history the registry of the
\* registrations that had returned when it began, whether it reached an
\* entry not fully written, and whether it missed an entry of that registry.
NoScan ==
    [pc |-> "idle", req |-> NULL, cur |-> NULLMH, result |-> NULLMH,
     old |-> <<>>, partial |-> FALSE, missed |-> FALSE]

\* The entry a scan of the list old must select unless it selects an entry
\* registered since: the first that accepts the request, NULL when none does.
FirstOf(old, req) ==
    LET S == {i \in DOMAIN old : Accepts(c_mem[old[i]].matcher, req)}
    IN IF S = {} THEN NULLMH ELSE old[CHOOSE i \in S : \A j \in S : i <= j]

ScanStart(req) ==
    /\ scan.pc \in {"idle", "done"}
    /\ scan' = [scan EXCEPT !.pc = "at", !.req = req, !.cur = c_head,
                            !.result = NULLMH, !.old = c_thr[1].done]
    /\ UNCHANGED <<c_head, c_mem, c_thr, regVars, replyVars, reqVars>>

\* The scan looks at the entry it is at: it calls its matcher (the worker
\* crashes when the pointer is NULL), selects the entry when the matcher
\* accepts, follows next when it does not, and ends with nothing at NULL.
ScanStep ==
    /\ scan.pc = "at"
    /\ LET Finish(r) ==
              [scan EXCEPT !.pc = "done", !.result = r,
                           !.partial = @ \/ (r # NULLMH /\ Partial(r)),
                           !.missed = @ \/ (\/ r = NULLMH /\ FirstOf(scan.old, scan.req) # NULLMH
                                            \/ /\ \E i \in DOMAIN scan.old : scan.old[i] = r
                                               /\ r # FirstOf(scan.old, scan.req))]
       IN IF scan.cur = NULLMH
          THEN scan' = Finish(NULLMH)
          ELSE LET e == c_mem[scan.cur]
               IN IF e.matcher = NULL
                  THEN scan' = [scan EXCEPT !.pc = "crashed", !.partial = TRUE]
                  ELSE IF Accepts(e.matcher, scan.req)
                  THEN scan' = Finish(scan.cur)
                  ELSE scan' = [scan EXCEPT !.cur = e.next,
                                            !.partial = @ \/ Partial(scan.cur)]
    /\ UNCHANGED <<c_head, c_mem, c_thr, regVars, replyVars, reqVars>>

-----------------------------------------------------------------------------
(* Transmission of the reply.                                              *)

MS_REPLY_TIMEOUT == 1000

\* register gchar *ptr_msg = ctx->header.msg ? ctx->header.msg : "NOMSG";
ReplyMsg_emptyIsAbsent(h) == IF h.msg # NULL /\ h.msg # "" THEN h.msg ELSE "NOMSG"
ReplyMsg(h) == IF h.msg # NULL THEN h.msg ELSE "NOMSG"

\* metaXServer_reply_simple: the reply to the request, with its status code
\* and message, no field and no body yet
metaXServer_reply_simple(request, code, msg) ==
    [request |-> request, code |-> code, msg |-> msg, fields |-> <<>>,
     body |-> [buffer |-> NULLBUF, size |-> 0]]

\* g_hash_table_foreach(ctx->extra_headers, reply_ctx_header_adder, answer):
\* every entry with data and a length above zero becomes a field
reply_ctx_header_adder(tbl) ==
    [k \in {x \in DOMAIN tbl : tbl[x] # <<>>} |-> tbl[k]]

\* The MESSAGE built by reply_context_reply before it is marshalled.
Answer(h, hdrs, b) ==
    LET answer == metaXServer_reply_simple(req_ctx.request, h.code, ReplyMsg(h))
        fields == IF ~hdrs.null THEN reply_ctx_header_adder(hdrs.tbl) ELSE <<>>
    IN [answer EXCEPT !.fields = fields,
                      !.body = IF b.buffer # NULLBUF /\ b.size > 0
                               THEN [buffer |-> b.buffer, size |-> b.size]
                               ELSE @]

RECURSIVE FieldsLen(_)
FieldsLen(fields) ==
    IF DOMAIN fields = {} THEN 0
    ELSE LET k == CHOOSE x \in DOMAIN fields : TRUE
         IN Len(k) + Len(fields[k])
              + FieldsLen([x \in DOMAIN fields \ {k} |-> fields[x]])

\* message_marshall_gba_and_clean: NULL, or the encoded bytes of the message
NULLENC == [null |-> TRUE, len |-> 0]
EncodedLen(answer) ==
    4 + Len(answer.msg) + FieldsLen(answer.fields) + answer.body.size
message_marshall_gba_and_clean(answer) ==
    {NULLENC, [null |-> FALSE, len |-> EncodedLen(answer)]}

\* gint _to = MAX(MS_REPLY_TIMEOUT, MIN(60000, default_to_operation));
ReplyTimeout_noFloor(t) == Min(60000, t)
ReplyTimeout(t) == Max(MS_REPLY_TIMEOUT, Min(60000, t))

\* sock_to_write(fd, ms, buf, bufSize, err): the count it returns and the
\* error it leaves in *err; it may report a short or zero count without an
\* error.
sock_to_write(len) ==
    { [sent |-> -1, err |-> GSETERROR("Write error")],
      [sent |-> -1, err |-> GSETERROR("Socket timeout")],
      [sent |-> 0, err |-> NoErr],
      [sent |-> len - 1, err |-> NoErr],
      [sent |-> len, err |-> NoErr] }

\* The bytes sock_to_write put on the socket: nothing unless sent > 0.
OnSocket(s, answer, len, sent) ==
    IF sent > 0 THEN Append(s, [data |-> answer, len |-> len, sent |-> sent]) ELSE s

\* The one sock_to_write call of reply_context_reply.
WriteReply_retryShort(s, answer, len, sent) ==
    IF sent > 0 /\ sent < len
    THEN OnSocket(OnSocket(s, answer, len, sent), answer, len, len)
    ELSE OnSocket(s, answer, len, sent)
WriteReply(s, answer, len, sent) == OnSocket(s, answer, len, sent)

\* gboolean done = (sent > 0) && (encoded->len == (guint)sent);
\* (the cast is evaluated for sent > 0 only, where it keeps the value)
ReplyDone_anyPositive(sent, len) == sent > 0
ReplyDone(sent, len) == sent > 0 /\ len = sent

\* g_prefix_error(err, prefix): does nothing when *err is NULL
g_prefix_error(err, prefix) ==
    IF err.set THEN [set |-> TRUE, msg |-> <<prefix>> \o err.msg] ELSE err

\* The calls reply_context_reply makes on the encoded reply, from the write
\* to the return: sock_to_write, g_byte_array_unref, then if (!done) the
\* prefix and return 0, else return 1.
EncodedCalls_unrefOnSuccess(done) ==
    <<"sock_to_write">>
      \o (IF done THEN <<"g_byte_array_unref">> ELSE <<"g_prefix_error">>) \o <<"return">>
EncodedCalls(done) ==
    <<"sock_to_write", "g_byte_array_unref">>
      \o (IF done THEN <<>> ELSE <<"g_prefix_error">>) \o <<"return">>

Unrefs(calls) == Cardinality({i \in DOMAIN calls : calls[i] = "g_byte_array_unref"})

reply_context_reply ==
    /\ nreply < MaxReplies
    /\ nreply' = nreply + 1
    /\ LET answer == Answer(header, extra_headers, body)
       IN \E encoded \in message_marshall_gba_and_clean(answer) :
            IF ~encoded.null
            THEN \E w \in sock_to_write(encoded.len) :
                   LET to == ReplyTimeout(default_to_operation)
                       done == ReplyDone(w.sent, encoded.len)
                   IN /\ sock' = WriteReply(sock, answer, encoded.len, w.sent)
                      /\ reply_call' = [answer |-> answer, encoded |-> encoded,
                                        fd |-> req_ctx.fd, to |-> to,
                                        sent |-> w.sent,
                                        calls |-> EncodedCalls(done),
                                        unrefs |-> Unrefs(EncodedCalls(done))]
                      /\ reply_err' = IF done THEN w.err
                                      ELSE g_prefix_error(w.err, "Failed to reply: ")
                      /\ reply_ret' = IF done THEN 1 ELSE 0
            ELSE /\ sock' = sock
                 /\ reply_call' = [answer |-> answer, encoded |-> encoded,
                                   fd |-> req_ctx.fd, to |-> 0,
                                   sent |-> 0, calls |-> <<"return">>, unrefs |-> 0]
                 /\ reply_err' = NoErr
                 /\ reply_ret' = 1
    /\ UNCHANGED <<req_ctx, default_to_operation, ctxVars, heapVars, histVars, regVars, restVars>>

NoCall == [fn |-> "none", name |-> NULLNAME, m |-> NULL, h |-> NULL, tags |-> NULLTAGS]

InitRegistryVars ==
    /\ BEACON_MSGHANDLER = <<>>
    /\ serv_tags = NULLTAGS
    /\ reg_call = NoCall
    /\ reg_ret = 1
    /\ reg_err = NoErr
    /\ regLog = <<>>
    /\ dispatched = [req |-> NULL, mh |-> 0]

NoBodyCall == [ctx |-> NULL, body |-> NULLBUF, size |-> 0, flags |-> {}]
NoHdrCall == [fn |-> "none", ctx |-> NULL, k |-> NULL, v |-> NULLBYTES, vlen |-> 0]
NoReply == [answer |-> metaXServer_reply_simple(NULL, 0, NULL), encoded |-> NULLENC,
            fd |-> -1, to |-> 0, sent |-> 0, calls |-> <<>>, unrefs |-> 0]

\* A zeroed reply context bound to its request context, after the given
\* calls (none, or one each) have set a body and added a header.
InitReplyContext(bodyCall, hdrCall, w) ==
    /\ header = ZeroHeader
    /\ body = IF bodyCall = NoBodyCall THEN ZeroBody
              ELSE [buffer |-> bodyCall.body, size |-> bodyCall.size,
                    copy |-> BodyCopy(bodyCall.flags)]
    /\ extra_headers = IF hdrCall = NoHdrCall THEN NULLTBL
                       ELSE [null |-> FALSE,
                             tbl |-> g_hash_table_insert(<<>>, hdrCall.k,
                                       g_byte_array_append(hdrCall.v, hdrCall.vlen))]
    /\ warning = w
    /\ heap = [b \in BufIds |-> IF b \in CallerBufs THEN "live" ELSE "unalloc"]
    /\ g_frees = [b \in BufIds |-> 0]
    /\ g_live = [msg |-> 0, warning |-> IF w.set THEN 1 ELSE 0,
                 table |-> IF hdrCall = NoHdrCall THEN 0 ELSE 1]
    /\ body_call = bodyCall
    /\ hdr_call = hdrCall
    /\ owned = {}
    /\ aliased = FALSE
    /\ lastAdd = IF hdrCall = NoHdrCall THEN <<>>
                 ELSE [k \in {hdrCall.k} |-> SubSeq(hdrCall.v.bytes, 1, hdrCall.vlen)]
    /\ lastStatus = ZeroHeader
    /\ req_ctx = [fd |-> 7, request |-> "r1"]
    /\ sock = <<>>
    /\ nreply = 0
    /\ reply_call = NoReply
    /\ reply_ret = 1
    /\ reply_err = NoErr

InitReplyWith(bodyCall, hdrCall) ==
    /\ default_to_operation = 30000
    /\ InitReplyContext(bodyCall, hdrCall, NoErr)

\* No connection has a request context yet; its sockets are open.
InitRequestVars ==
    /\ request_info = ZeroRequestContext
    /\ rc_mem = [st |-> [o \in RcObjects |-> "unalloc"],
                 frees |-> [o \in RcObjects |-> 0],
                 val |-> [o \in RcAddrs |-> "none"]]
    /\ rc_hist = NoRequestHistory
    /\ fd_open = Fds

\* The registry in memory is empty, no thread registers or scans.
InitConcVars ==
    /\ c_head = NULLMH
    /\ c_mem = <<>>
    /\ c_thr = [t \in Threads |-> IdleThread]
    /\ scan = NoScan

InitRest == InitRequestVars /\ InitConcVars

Init == InitRegistryVars /\ InitReplyWith(NoBodyCall, NoHdrCall) /\ InitRest

Register(names, matchers, handlers, handlers2) ==
    \E name \in names, m \in matchers :
        \/ \E h \in handlers : message_handler_add(name, m, h)
        \/ \E h \in handlers2, tags \in TagArgs :
              message_handler_add_v2(name, m, h, tags)

\* Registration calls with every combination of present and absent arguments.
NextRegistry ==
    Register(Names \cup {NULLNAME}, Matchers \cup {NULL},
             Handlers \cup {NULL}, HandlersV2 \cup {NULL})

SpecRegistry == Init /\ [][NextRegistry]_vars

\* Startup registration with valid arguments, then dispatch scans.
NextDispatch ==
    \/ Register(Names, Matchers, Handlers, HandlersV2)
    \/ \E req \in Requests : Dispatch(req)

SpecDispatch == Init /\ [][NextDispatch]_vars

\* The caller gives set_body no buffer, one of its own live buffers, or the
\* live buffer the context holds.
BodyArgs == {NULLBUF} \cup {b \in BufIds : heap[b] = "live"}

SetBody ==
    \E ctx \in CtxArgs, buf \in BodyArgs, bodySize \in BodySizes, flags \in BodyFlags :
        reply_context_set_body(ctx, buf, bodySize, flags)

Clear == \E ctx \in CtxArgs, all \in BOOLEAN : reply_context_clear(ctx, all)

\* A handler setting bodies on its reply context and clearing it.
NextBody == SetBody \/ Clear

SpecBody == Init /\ [][NextBody]_vars

SetMessage ==
    \E ctx \in CtxArgs, code \in StatusCodes, msg \in StatusMsgs :
        reply_context_set_message(ctx, code, msg)

AddHeader ==
    \E ctx \in CtxArgs, k \in Keys \cup {NULL} :
        \/ \E v \in StrValues : reply_context_add_strheader_in_reply(ctx, k, v)
        \/ \E v \in GByteArrays : reply_context_add_header_in_reply(ctx, k, v)

\* A handler adding headers to its reply context and clearing it.
NextHeaders == AddHeader \/ Clear

SpecHeaders == Init /\ [][NextHeaders]_vars

\* A handler that has either left its reply context bare or set a borrowed
\* body and added a header, and then sets the status of the context, transmits
\* the reply (more than once if it likes) and clears the context.
InitReply ==
    /\ InitRegistryVars
    /\ InitRest
    /\ \/ InitReplyWith(NoBodyCall, NoHdrCall)
       \/ InitReplyWith([ctx |-> CTX, body |-> 1, size |-> 3, flags |-> {}],
                        [fn |-> "strheader", ctx |-> CTX, k |-> "k1",
                         v |-> Bytes(<<118>>), vlen |-> 1])

NextReply == SetMessage \/ Clear \/ reply_context_reply

SpecReply == InitReply /\ [][NextReply]_vars

\* The warning a handler may have left on its reply context.
Warnings == {NoErr, [set |-> TRUE, msg |-> <<"warning">>]}

InitClear ==
    /\ InitRegistryVars
    /\ InitRest
    /\ default_to_operation = 30000
    /\ \E w \in Warnings : InitReplyContext(NoBodyCall, NoHdrCall, w)

\* A handler that sets the status, a borrowed or copied body and headers on a
\* reply context that may carry a warning, and clears it in part or in full.
HandlerSetsBody ==
    \E buf \in CallerBufs, flags \in {{}, {REPLYCTX_COPY}} :
        reply_context_set_body(CTX, buf, 3, flags)

HandlerAddsHeader ==
    \E k \in {"k1", "k2"}, v \in {Bytes(<<118>>), Bytes(<<119, 120>>)} :
        reply_context_add_strheader_in_reply(CTX, k, v)

NextClear == SetMessage \/ HandlerSetsBody \/ HandlerAddsHeader \/ Clear

SpecClear == InitClear /\ [][NextClear]_vars

\* A connection whose request context is created, cleared any number of
\* times and destroyed at most once, by the call or by the GLib callback.
NextRequest ==
    \/ \E fd \in Fds, fd_peer \in PeerArgs : request_context_create(fd, fd_peer)
    \/ \E p \in RcArgs : request_context_clear(p)
    \/ \E p \in RcArgs : request_context_free(p)
    \/ \E p1 \in RcArgs : request_context_gclean(p1, NULL)

SpecRequest == Init /\ [][NextRequest]_vars

\* One thread registers handlers, one call after the other, while a worker
\* thread scans the registry.
NextScan ==
    \/ \E m \in Matchers, order \in Orders :
          \/ \E h \in Handlers : RegBegin(1, "add", [id |-> "ping", len |-> 4], m, h, order)
          \/ \E h \in HandlersV2 :
                RegBegin(1, "add_v2", [id |-> "ping", len |-> 4], m, h, order)
    \/ RegStep(1)
    \/ \E req \in Requests : ScanStart(req)
    \/ ScanStep

SpecScan == Init /\ [][NextScan]_vars

\* Two threads register handlers at the same time, each running its
\* statements in program order.
NextRace ==
    \E t \in Threads :
        \/ \E name \in Names, m \in Matchers :
              \/ \E h \in Handlers : RegBegin(t, "add", name, m, h, "program")
              \/ \E h \in HandlersV2 : RegBegin(t, "add_v2", name, m, h, "program")
        \/ RegStep(t)

SpecRace == Init /\ [][NextRace]_vars

\* The operation timeouts a server may be configured with: negative, zero,
\* below, at and above each end of the range, and the extremes of a gint.
Timeouts ==
    {-2147483647, -1, 0, 500, 999, 1000, 1001, 30000, 59999, 60000, 60001, 120000,
     2147483647}

InitTimeout ==
    /\ InitRegistryVars
    /\ InitRest
    /\ default_to_operation \in Timeouts
    /\ InitReplyContext(NoBodyCall, NoHdrCall, NoErr)

\* A server with any configured timeout transmitting replies.
NextTimeout == reply_context_reply

SpecTimeout == InitTimeout /\ [][NextTimeout]_vars

-----------------------------------------------------------------------------
(* Claims about the registry.                                              *)

\* The entry of the log registered last among those whose matcher accepts req
\* (its address), 0 when no entry of the log accepts it.
LastMatching(log, req) ==
    LET S == {i \in 1..Len(log) : Accepts(log[i].matcher, req)}
    IN IF S = {} THEN 0
       ELSE log[CHOOSE i \in S : \A j \in S : j <= i].addr

\* C1: after any sequence of successful registrations, simple and tagged, the
\* front-to-back scan for a request selects the entry registered last among
\* those whose matcher accepts the request, and none when no entry accepts it.
C1_LastRegisteredWins ==
    \A req \in Requests :
        Scan(BEACON_MSGHANDLER, req) = LastMatching(regLog, req)

\* A simple entry, then a tagged entry registered after it, both accepting r1:
\* the scan for r1 has selected the tagged one; r3, accepted by none, selects
\* nothing.
C1_Witness ==
    /\ Len(regLog) = 2
    /\ regLog[1].handler # NULL /\ regLog[2].handler_v2 # NULL
    /\ Accepts(regLog[1].matcher, "r1") /\ Accepts(regLog[2].matcher, "r1")
    /\ dispatched = [req |-> "r1", mh |-> regLog[2].addr]
    /\ Scan(BEACON_MSGHANDLER, "r3") = 0

\* C2: a registration call in which the name, the matcher or the handler is
\* absent returns 0 with an "Invalid parameter" error and leaves the registry
\* and the tag collection as they were.
C2_FailedRegistrationChangesNothing ==
    [][ (reg_call'.name = NULLNAME \/ reg_call'.m = NULL \/ reg_call'.h = NULL)
          => /\ reg_ret' = 0
             /\ reg_err'.set
             /\ reg_err'.msg \in {<<"Invalid parameter">>, <<"Invalid parameters">>}
             /\ BEACON_MSGHANDLER' = BEACON_MSGHANDLER
             /\ serv_tags' = serv_tags
             /\ regLog' = regLog ]_vars

\* A tagged registration without a handler, with tags, has failed on a registry
\* that holds an entry and a tag collection that holds tags.
C2_Witness ==
    /\ reg_call.fn = "add_v2" /\ reg_call.h = NULL /\ ~reg_call.tags.null
    /\ reg_call.name # NULLNAME /\ reg_call.m # NULL
    /\ reg_ret = 0
    /\ Len(BEACON_MSGHANDLER) = 1
    /\ ~serv_tags.null /\ Len(serv_tags.arr) = 2

-----------------------------------------------------------------------------
(* Claims about the body and the extra headers of the reply context.       *)

\* C7: while set_body is given buffers distinct from the one the context
\* holds, every buffer the context copied or took over has been released
\* exactly once as soon as the context no longer holds it (at the next
\* set_body or clear, and never again), the one it holds has not been
\* released, and a buffer it only borrowed is never released.
C7_FirstBodyReleasedOnce ==
    ~aliased =>
        \A b \in BufIds :
            g_frees[b] = IF b \in owned /\ b # body.buffer THEN 1 ELSE 0

\* A copied body, a taken-over body and a borrowed body have been set one
\* after the other and the context cleared: the copy and the taken-over buffer
\* are released once, the borrowed one is live.
C7_Witness ==
    /\ ~aliased
    /\ body = ZeroBody
    /\ \E d \in DupBufs : d \in owned /\ g_frees[d] = 1 /\ heap[d] = "freed"
    /\ \E c \in CallerBufs : c \in owned /\ g_frees[c] = 1 /\ heap[c] = "freed"
    /\ body_call.ctx = CTX /\ body_call.flags = {} /\ body_call.size > 0
    /\ body_call.body \in CallerBufs /\ body_call.body \notin owned
    /\ heap[body_call.body] = "live"

\* The last set_body call on the context had no buffer or a size of zero.
EmptyBodyCall(call) == call.ctx = CTX /\ (call.body = NULLBUF \/ call.size = 0)

ExtraHeaders == IF extra_headers.null THEN <<>> ELSE extra_headers.tbl

\* C9: the extra headers hold exactly one entry per key added with a value
\* that is not empty, with the value of the last such add; no entry is empty.
C9_HeadersHoldLastAdds ==
    /\ ExtraHeaders = lastAdd
    /\ \A k \in DOMAIN ExtraHeaders : ExtraHeaders[k] # <<>>

\* k1 was added twice and holds the second value; the last call, an add of an
\* empty value for k1, has left that entry in place.
C9_Witness ==
    /\ hdr_call.ctx = CTX /\ hdr_call.k = "k1"
    /\ ~hdr_call.v.null /\ hdr_call.vlen = 0
    /\ ~extra_headers.null
    /\ DOMAIN extra_headers.tbl = {"k1", "k2"}
    /\ extra_headers.tbl["k1"] = <<0>>
    /\ extra_headers.tbl["k2"] = <<119, 120>>

\* C18: after any set_body and clear calls in which the caller passes any
\* buffer that is live at the call, the buffer the context holds included and
\* under any flags, the body buffer recorded in the context is not released
\* storage and no buffer has been released more than once.
C18_BodyNeverDangling ==
    /\ body.buffer # NULLBUF => heap[body.buffer] = "live"
    /\ \A b \in BufIds : g_frees[b] <= 1

-----------------------------------------------------------------------------
(* Claims about the transmission of the reply.                             *)

\* The replies written in full to the socket.
FullReplies == {i \in DOMAIN sock : sock[i].sent = sock[i].len}

\* C3 as stated: over any sequence of calls on one reply context, at most
\* one reply is written to the socket.
C3_Original == Cardinality(FullReplies) <= 1

\* C3, amended: a reply context writes at most one reply per transmit call,
\* not one per request: the writes on the socket number at most the transmit
\* calls, and a second transmit does put a second reply on the connection.
C3_OneWritePerTransmit == Len(sock) <= nreply

\* Two transmits on the same context have each written a reply in full.
C3_Witness ==
    /\ nreply = 2
    /\ Len(sock) = 2
    /\ FullReplies = {1, 2}

\* A reply_context_reply call has been made and obtained the encoded reply.
Transmitted == nreply > 0 /\ ~reply_call.encoded.null

\* C4: for an encoded reply of length L, transmit returns 1 exactly when the
\* write reports a count that is above zero and equal to L.
C4_SuccessIffFullWrite ==
    Transmitted =>
        (reply_ret = 1 <=>
            (reply_call.sent > 0 /\ reply_call.sent = reply_call.encoded.len))

\* The write reported a short count above zero and transmit returned 0.
C4_Witness ==
    /\ Transmitted
    /\ reply_call.sent > 0 /\ reply_call.sent < reply_call.encoded.len
    /\ reply_ret = 0

\* C5 as stated: when the marshalling yields no bytes, transmit returns the
\* failure indicator and writes nothing to the socket.
C5_MarshalFailureIsAnError ==
    [][ (nreply' = nreply + 1 /\ reply_call'.encoded.null)
          => (reply_ret' = 0 /\ sock' = sock) ]_vars

\* C6 as stated: a transmit that returns 0 hands back an error whose text
\* begins with "Failed to reply: ", and one that returns 1 hands back none.
C6_FailureCarriesPrefix ==
    nreply > 0 =>
        /\ reply_ret = 0 =>
              (reply_err.set /\ Head(reply_err.msg) = "Failed to reply: ")
        /\ reply_ret = 1 => ~reply_err.set

\* C10: transmit sends "NOMSG" with the current status code when the context
\* has no message (never set, set as absent, cleared), and the message and
\* code of the last set_message otherwise; what reaches the socket is that
\* reply.
C10_PlaceholderMessage ==
    [][ nreply' = nreply + 1
          => /\ reply_call'.answer.msg =
                   (IF lastStatus.msg = NULL THEN "NOMSG" ELSE lastStatus.msg)
             /\ reply_call'.answer.code = lastStatus.code
             /\ reply_call'.answer.code = header.code
             /\ sock' # sock => sock'[Len(sock')].data = reply_call'.answer ]_vars

\* A status with a code and no message was set and the reply written in
\* full: "NOMSG" went out with that code.
C10_Witness ==
    /\ lastStatus = [code |-> 500, msg |-> NULL]
    /\ nreply = 1 /\ reply_ret = 1
    /\ Len(sock) = 1
    /\ sock[1].data.msg = "NOMSG" /\ sock[1].data.code = 500
    /\ sock[1].sent = sock[1].len

\* C11: the message of a transmitted reply is never empty: whatever messages
\* (absent, empty, not empty) set_message was given before the transmission,
\* the message placed in the reply is a string that is not empty.
C11_MessageNeverEmpty ==
    nreply > 0 => reply_call.answer.msg \notin {NULL, ""}

\* C12: the deadline given to the write of a reply is the configured timeout
\* clamped into [1000, 60000]: 1000 below 1000 (zero and negative values too),
\* the timeout itself in the range, 60000 above 60000; so 0, 500, 30000 and
\* 120000 give 1000, 1000, 30000 and 60000.
C12_DeadlineClamped ==
    /\ Transmitted =>
          LET t == default_to_operation
              to == reply_call.to
          IN /\ t < 1000 => to = 1000
             /\ (t >= 1000 /\ t <= 60000) => to = t
             /\ t > 60000 => to = 60000
    /\ <<ReplyTimeout(0), ReplyTimeout(500), ReplyTimeout(30000), ReplyTimeout(120000)>>
          = <<1000, 1000, 30000, 60000>>

\* A server configured with no timeout at all has written a reply under the
\* deadline of one second.
C12_Witness ==
    /\ Transmitted
    /\ default_to_operation = 0
    /\ reply_call.to = 1000
    /\ Len(sock) = 1

\* C14: every transmit that obtained the encoded reply releases that buffer
\* exactly once, after the write attempt has returned and before the transmit
\* returns, whatever the write returned; a transmit that obtained none
\* releases nothing.
C14_EncodedReleasedOnce ==
    nreply > 0 =>
        LET c == reply_call.calls
            U == {i \in DOMAIN c : c[i] = "g_byte_array_unref"}
        IN IF Transmitted
           THEN /\ Cardinality(U) = 1
                /\ reply_call.unrefs = 1
                /\ \A u \in U : /\ \E w \in 1..(u - 1) : c[w] = "sock_to_write"
                                /\ \A r \in DOMAIN c : c[r] = "return" => r > u
                /\ c[Len(c)] = "return"
           ELSE U = {} /\ reply_call.unrefs = 0

\* The write of an encoded reply failed with an error and the transmit
\* returned 0: the buffer was released on the way.
C14_Witness ==
    /\ Transmitted
    /\ reply_call.sent = -1 /\ reply_ret = 0 /\ reply_err.set
    /\ reply_call.calls =
          <<"sock_to_write", "g_byte_array_unref", "g_prefix_error", "return">>

-----------------------------------------------------------------------------
(* Claims about clearing the reply context.                                *)

\* What a clear of either mode does: the message and an owned body are
\* released, a borrowed body is not, code, message and body are reset, the
\* bound request context stays.
ClearResets ==
    /\ header' = ZeroHeader
    /\ body' = ZeroBody
    /\ g_live'.msg = 0
    /\ g_live.msg = (IF header.msg # NULL THEN 1 ELSE 0)
    /\ \A b \in BufIds :
          IF b = body.buffer /\ b \in owned
          THEN heap'[b] = "freed" /\ g_frees'[b] = g_frees[b] + 1
          ELSE heap'[b] = heap[b] /\ g_frees'[b] = g_frees[b]
    /\ req_ctx' = req_ctx

\* C13: clear(full = false) releases the message and an owned body and resets
\* code, message and body, and leaves the warning, every extra header and the
\* bound request context as they were; clear(full = true) also releases the
\* warning and destroys the table of extra headers, which is then absent, so
\* that the next header added creates it anew with that header alone.
C13_ClearModes ==
    [][ /\ reply_context_clear(CTX, FALSE) =>
              /\ ClearResets
              /\ warning' = warning /\ g_live'.warning = g_live.warning
              /\ extra_headers' = extra_headers /\ g_live'.table = g_live.table
        /\ reply_context_clear(CTX, TRUE) =>
              /\ ClearResets
              /\ warning' = NoErr /\ g_live'.warning = 0
              /\ extra_headers' = NULLTBL /\ g_live'.table = 0
        /\ (extra_headers.null /\ ~extra_headers'.null) =>
              /\ DOMAIN extra_headers'.tbl = {hdr_call'.k}
              /\ g_live'.table = 1 ]_vars

\* A partial clear has released the copied body of a context that carries a
\* warning and two headers: status and body are reset, the warning and the
\* headers are still there.
C13_Witness ==
    /\ warning.set
    /\ ~extra_headers.null /\ DOMAIN extra_headers.tbl = {"k1", "k2"}
    /\ header = ZeroHeader /\ body = ZeroBody
    /\ body_call.flags = {REPLYCTX_COPY}
    /\ \E d \in DupBufs : heap[d] = "freed" /\ g_frees[d] = 1
    /\ \A d \in DupBufs : heap[d] # "live"
    /\ g_live = [msg |-> 0, warning |-> 1, table |-> 1]

-----------------------------------------------------------------------------
(* Claims about the growth of the registry and of the tags.                *)

\* C15: the registry only grows: a successful registration puts its entry at
\* the front and the count goes up by one, a failed one changes nothing; no
\* entry is removed, none has its matcher, handler, kind or name changed, the
\* order of the entries stays; every entry has exactly one of the two kinds
\* of handler.
C15_AppendOnly ==
    [][ LET old == BEACON_MSGHANDLER
            new == BEACON_MSGHANDLER'
        IN /\ IF reg_ret' = 1
              THEN /\ Len(new) = Len(old) + 1
                   /\ Tail(new) = old
                   /\ \A i \in DOMAIN old : old[i].addr # Head(new).addr
                   /\ Head(new).matcher = reg_call'.m
                   /\ Head(new).name.id = reg_call'.name.id
              ELSE new = old
           /\ \A i \in DOMAIN new :
                 (new[i].handler # NULL) # (new[i].handler_v2 # NULL) ]_vars

\* A simple entry and then a tagged entry are registered: the tagged one is
\* in front of the simple one, each with its own kind of handler.
C15_Witness ==
    /\ Len(BEACON_MSGHANDLER) = 2 /\ reg_ret = 1
    /\ BEACON_MSGHANDLER[1].handler_v2 # NULL /\ BEACON_MSGHANDLER[1].handler = NULL
    /\ BEACON_MSGHANDLER[2].handler # NULL /\ BEACON_MSGHANDLER[2].handler_v2 = NULL
    /\ BEACON_MSGHANDLER[2] = regLog[1]

TagArray(t) == IF t.null THEN <<>> ELSE t.arr

\* C16: the tags of the process are the concatenation, in the order of the
\* registrations and of the tags of each call, of copies of the tags given to
\* the successful tagged registrations: such a call appends a copy of each of
\* its tags, and simple registrations, failed registrations and tagged ones
\* without tags append nothing; the collection exists from the first
\* successful tagged registration on, and not before.
C16_TagsConcatenated ==
    [][ LET before == TagArray(serv_tags)
            after == TagArray(serv_tags')
            taggedOk == reg_ret' = 1 /\ reg_call'.fn = "add_v2"
            given == IF taggedOk THEN TagArray(reg_call'.tags) ELSE <<>>
        IN /\ Len(after) = Len(before) + Len(given)
           /\ SubSeq(after, 1, Len(before)) = before
           /\ \A i \in DOMAIN given :
                 LET copy == after[Len(before) + i]
                 IN /\ copy.name = given[i].name
                    /\ copy.addr # given[i].addr
                    /\ \A j \in DOMAIN after : j # Len(before) + i => after[j].addr # copy.addr
           /\ ~serv_tags'.null <=> (~serv_tags.null \/ taggedOk) ]_vars

\* Two tagged registrations with two tags each, then a failed one: the
\* collection holds the four copies in order.
C16_Witness ==
    /\ ~serv_tags.null
    /\ [i \in DOMAIN serv_tags.arr |-> serv_tags.arr[i].name]
          = <<"tag.up", "tag.vol", "tag.up", "tag.vol">>
    /\ Len(regLog) = 2
    /\ reg_call.fn = "add_v2" /\ ~reg_call.tags.null /\ reg_ret = 0

-----------------------------------------------------------------------------
(* Claims about the request context.                                       *)

\* C17: over any clear calls followed by at most one destroy, with NULL
\* contexts among them, each address record the context owns is released
\* exactly once (at the first clear or at the destroy), the structure is all
\* zero from the first clear on whatever the number of clears, the structure
\* itself is released by the destroy only, and the socket is never closed.
C17_ClearIdempotent ==
    LET created == rc_mem.st["ctx"] # "unalloc"
        started == rc_hist.clears > 0 \/ rc_hist.destroyed
    IN /\ \A o \in RcAddrs :
             /\ rc_mem.frees[o] = (IF started THEN 1 ELSE 0)
             /\ rc_mem.st[o] = (IF started THEN "freed"
                                ELSE IF created THEN "live" ELSE "unalloc")
       /\ rc_mem.frees["ctx"] = (IF rc_hist.destroyed THEN 1 ELSE 0)
       /\ rc_mem.st["ctx"] = "freed" <=> rc_hist.destroyed
       /\ started => request_info = ZeroRequestContext
       /\ (created /\ ~started) => request_info = rc_hist.created
       /\ fd_open = Fds

\* A context created on socket 5 with the local address the listener knew
\* was cleared twice and then destroyed.
C17_Witness ==
    /\ rc_hist.created.fd = 5
    /\ rc_mem.val["local_addr"] = "fd_peer"
    /\ rc_hist.clears = 2 /\ rc_hist.destroyed
    /\ \A o \in RcObjects : rc_mem.st[o] = "freed" /\ rc_mem.frees[o] = 1
    /\ 5 \in fd_open

-----------------------------------------------------------------------------
(* Claims about registrations and scans that run at the same time.         *)

\* The elements of a sequence.
Elems(seq) == {seq[i] : i \in DOMAIN seq}

\* During a registration the list reachable from the head is the list
\* before it or that list with the new entry in front, a reachable new entry
\* has all its fields and its link; between registrations it is the list of
\* the entries registered, last first.
WellFormed ==
    /\ \A t \in Threads :
          c_thr[t].pc = "run" =>
             /\ Registry \in {c_thr[t].old, <<c_thr[t].mh>> \o c_thr[t].old}
             /\ Registry # c_thr[t].old => c_mem[c_thr[t].mh] = Want(c_thr[t])
    /\ (\A t \in Threads : c_thr[t].pc # "run") => Registry = c_thr[1].done

ScanSafe ==
    /\ WellFormed
    /\ scan.pc # "crashed" /\ ~scan.partial /\ ~scan.missed

\* C19 as stated: a scan concurrent with one registration always sees a
\* well-formed registry, never reaches a partially initialised entry and
\* never misses an entry registered earlier.
C19_Original == ScanSafe

\* C19, amended: the registration stores the head last in program order, so
\* the registry is well-formed at every step, and a concurrent scan safe, as
\* long as the stores of the registrations are seen in program order; and
\* once a registration has returned the registry is the list before it with
\* the new entry in front, in whatever order its stores were seen.
C19_WellFormedInProgramOrder ==
    /\ ~c_thr[1].raced => ScanSafe
    /\ (\A t \in Threads : c_thr[t].pc # "run") =>
          /\ Registry = c_thr[1].done
          /\ \A a \in Elems(Registry) :
                /\ c_mem[a].matcher # NULL
                /\ (c_mem[a].handler # NULL) # (c_mem[a].handler_v2 # NULL)

\* A scan has selected the entry of a tagged registration that runs in
\* program order and has not returned yet, in front of an earlier entry.
C19_Witness ==
    /\ ~c_thr[1].raced
    /\ c_thr[1].pc = "run" /\ c_thr[1].todo = {"serv_tags"}
    /\ Len(c_thr[1].old) = 1
    /\ scan.pc = "done" /\ scan.result = c_thr[1].mh
    /\ scan.old = c_thr[1].old

\* C20 as stated: two registrations with valid arguments running at the same
\* time both return success and both entries are in the registry: no entry
\* registered with success is lost.
C20_Original ==
    \A t \in Threads :
        /\ c_thr[t].pc = "done" => c_thr[t].ret = 1
        /\ Elems(c_thr[t].done) \subseteq Elems(Registry)

\* The entries whose address has been stored in the head.
Published ==
    UNION {Elems(c_thr[t].done) : t \in Threads}
      \cup {c_thr[t].mh : t \in {u \in Threads : c_thr[u].pc = "run"
                                                  /\ "publish" \notin c_thr[u].todo}}

\* C20, amended: both registrations return success, and every entry is in
\* the registry as long as no registration stored the head over a value it
\* had not loaded; when one did (the other stored the head between its load
\* and its store), an entry registered with success is lost.
C20_LostWhenInterleaved ==
    /\ \A t \in Threads : c_thr[t].pc = "done" => c_thr[t].ret = 1
    /\ (\A t \in Threads : ~c_thr[t].stale) => Published \subseteq Elems(Registry)
    /\ (\E t \in Threads : c_thr[t].stale) => ~(Published \subseteq Elems(Registry))
    /\ c_head # NULLMH => c_head \in Published

\* Both threads loaded the empty head before either stored it: both calls
\* have returned 1 and the registry holds one entry of the two.
C20_Witness ==
    /\ \A t \in Threads : c_thr[t].pc = "done" /\ c_thr[t].ret = 1 /\ Len(c_thr[t].done) = 1
    /\ \E t \in Threads : c_thr[t].stale
    /\ Len(c_mem) = 2 /\ Len(Registry) = 1

====
